---- MODULE Spec2Model ----
(***************************************************************************)
(* Model of src/refresh.js: the "refresh" utility of devtoolz.  One run of *)
(* the program is the async.waterfall of setupProgramInfo, displayHeader,   *)
(* validateProgram, setupConfigOptions and processRequest, followed by the  *)
(* callbacks of the external commands (svn update, nuget restore, build).   *)
(* Arrays that the program mutates in place (buildArgs) live in a heap      *)
(* (arrays) and are named by references, so that aliasing between a cloned  *)
(* command and its template is a property of clone and not of the notation. *)
(***************************************************************************)
EXTENDS Integers, Sequences, FiniteSets, TLC

VARIABLES pc, program, argvLen, file, config, arrays, accessed, accessErr,
          readStarted, resolved, mode, targetProjects, idx, bc, nc,
          inflight, log, failure, reported, startTime, endTime, summaries,
          completions, helpFlags, header, elapsed, summary

vars == <<pc, program, argvLen, file, config, arrays, accessed, accessErr,
          readStarted, resolved, mode, targetProjects, idx, bc, nc,
          inflight, log, failure, reported, startTime, endTime, summaries,
          completions, helpFlags, header, elapsed, summary>>

\* the state of the report: the flags of argv that displayHeader looks for,
\* the header, the measured time and the summary displayProcessTime prints
reportVars == <<helpFlags, header, elapsed, summary>>

(*********************** bounds of the model *******************************)
MaxProjects == 2      \* length of config.projects
MaxRefs == 3          \* length of a workspace's projects
MaxArgs == 2          \* length of a template's buildArgs
MaxHours == 1         \* whole hours of a measured duration

(*********************** values *******************************************)
\* JavaScript undefined and null
Undefined == [undefined |-> TRUE]
Null == [null |-> TRUE]

Tools == {"msbuild", "nuget", "make"}

ProjectNames == {"A", "B"}

\* the arguments a command template is made of, in order
ArgNames == <<"arg1", "arg2", "arg3", "arg4">>

SeqsUpTo(S, n) == UNION {[1..k -> S] : k \in 0..n}

\* entries of "projects" in config.json; two of them share the name "A"
ProjectPool ==
    { [name |-> "A", path |-> "/wc/a", buildTool |-> "msbuild", buildPath |-> "/wc/a", slnFile |-> "a.sln"],
      [name |-> "B", path |-> "/wc/b", buildTool |-> "msbuild", buildPath |-> "/wc/b", slnFile |-> "b.sln"],
      [name |-> "A", path |-> "/wc/a2", buildTool |-> "make", buildPath |-> "/wc/a2", slnFile |-> "a2.mk"] }

\* entries of "workspaces" in config.json
WorkspacePool ==
    { [name |-> "W", projects |-> r] : r \in SeqsUpTo(ProjectNames, MaxRefs) }

\* the workspaces of at most one project
ShortWorkspaces == {w \in WorkspacePool : Len(w.projects) <= 1}

\* values of "workspaces" in config.json: no workspace, one workspace, a
\* short workspace followed by a second entry of the same name, or
\* preceded by an entry of another name
WorkspaceLists ==
    {<<>>}
    \cup { <<w>> : w \in WorkspacePool }
    \cup { <<w, [name |-> "W", projects |-> <<>>]>> : w \in ShortWorkspaces }
    \cup { <<[name |-> "V", projects |-> <<"A">>], w>> : w \in ShortWorkspaces }

\* a command template as written in config.json
Template(tool, n) == [buildFile |-> tool, buildArgs |-> SubSeq(ArgNames, 1, n)]

\* values of "buildConfig" in config.json
BuildConfigFiles ==
    {Null}
    \cup { [t \in Tools |-> Template(t, n)] : n \in 0..MaxArgs }
    \cup { [t \in Tools \ {m} |-> Template(t, 1)] : m \in Tools }

\* contents of config.json
ConfigFiles ==
    [ buildConfig : BuildConfigFiles,
      projects : SeqsUpTo(ProjectPool, MaxProjects),
      workspaces : WorkspaceLists ]

\* references into the heap of arrays: one per template, one per local clone
TemplateRef(tool) == <<"buildConfig", tool>>
Refs == {TemplateRef(t) : t \in Tools} \cup {<<"local", "nc">>, <<"local", "bc">>}

NoSummary == [minutes |-> -1, seconds |-> -1]
NoError == [kind |-> "none", name |-> "", pos |-> 0]
NoCommand == [kind |-> "none", pos |-> 0, name |-> "", file |-> "", args |-> <<>>, cwd |-> ""]

\* an option that was not given on the command line (a falsy value)
NoValue == ""

\* setupConfigOptions: defaultOptions
defaultOptions == [reposRoot |-> Null, buildConfig |-> Null, projects |-> <<>>, workspaces |-> <<>>]


\* JavaScript truthiness of an option value of commander
Truthy(v) == v # NoValue

(*********************** pure functions of the program *********************)

RECURSIVE findFrom(_, _, _)
findFrom(collection, target, i) ==
    IF i > Len(collection) THEN Undefined
    ELSE IF collection[i].name = target THEN collection[i]
    ELSE findFrom(collection, target, i + 1)

RECURSIVE findLastFrom(_, _, _)
findLastFrom(collection, target, i) ==
    IF i < 1 THEN Undefined
    ELSE IF collection[i].name = target THEN collection[i]
    ELSE findLastFrom(collection, target, i - 1)

\* a find that returns the last entry of the name instead of the first
findLast(collection, target) == findLastFrom(collection, target, Len(collection))

\* _.find(collection, _.matchesProperty('name', target))
find(collection, target) == findFrom(collection, target, 1)

\* a validation without the check of --project together with --workspace
validateArgsNoConflict(n, prog) ==
    IF n <= 2 THEN "No arguments defined." ELSE NoValue

\* validateProgram: the two checks that clear isValid; the result is the
\* error message, NoValue when the arguments are valid
validateArgs(n, prog) ==
    LET m1 == IF n <= 2 THEN "No arguments defined." ELSE NoValue
        m2 == IF Truthy(prog.project) /\ Truthy(prog.workspace)
              THEN "Options --project and --workspace cannot be used together."
              ELSE m1
    IN m2

\* validateProgram: configPath
configPathOf(prog) == IF Truthy(prog.config) THEN prog.config ELSE "config.json"

\* a callback of fs.access that ignores err
accessCallbackIgnoresErr(err) == "next"

\* validateProgram: the callback of fs.access
accessCallback(err) == IF err THEN "error" ELSE "next"

\* opts.isDefinedAndNonNull('buildConfig')
isDefinedAndNonNull(v) == v # Undefined /\ v # Null

\* a setupConfigOptions without the check for a valid build config
buildConfigNeverMissing(prog, cfg) == FALSE

\* setupConfigOptions: the check for a valid build config
buildConfigMissing(prog, cfg) == prog.build /\ ~isDefinedAndNonNull(cfg.buildConfig)

\* opts.value.buildConfig[tool]
lookupTool(buildConfig, tool) ==
    IF tool \in DOMAIN buildConfig THEN buildConfig[tool] ELSE Undefined

\* a clone that shares the buildArgs array with the template
cloneShallow(value, isDeep, fresh) == value

\* _.clone(value, isDeep): the clone of a command template; a deep clone
\* (isDeep, as the code asks for) has its own buildArgs array, at reference
\* fresh; the clone of undefined is undefined
clone(value, isDeep, fresh) ==
    IF value = Undefined THEN Undefined
    ELSE IF isDeep THEN [buildFile |-> value.buildFile, buildArgs |-> fresh]
    ELSE value

\* the heap after _.clone(value, true) copied the buildArgs of value
cloneHeap(heap, value, fresh) ==
    IF value = Undefined THEN heap
    ELSE [heap EXCEPT ![fresh] = heap[value.buildArgs]]

Min(a, b) == IF a < b THEN a ELSE b

\* a splice that inserts at the front of the array
spliceAtFront(arr, start, deleteCount, item) == <<item>> \o arr

\* Array.prototype.splice(start, deleteCount, item) for start >= 0
splice(arr, start, deleteCount, item) ==
    LET s == Min(start, Len(arr))
        d == Min(deleteCount, Len(arr) - s)
    IN SubSeq(arr, 1, s) \o <<item>> \o SubSeq(arr, s + d + 1, Len(arr))

\* Array.prototype.push(item)
push(arr, item) == Append(arr, item)

RECURSIVE resolveFrom(_, _, _)
resolveFrom(refs, projects, i) ==
    IF i > Len(refs) THEN [err |-> NoValue, targetProjects |-> <<>>]
    ELSE LET targetProject == find(projects, refs[i])
         IN IF targetProject = Undefined
            THEN [err |-> refs[i], targetProjects |-> <<>>]
            ELSE LET rest == resolveFrom(refs, projects, i + 1)
                 IN [err |-> rest.err,
                     targetProjects |-> IF rest.err = NoValue
                                        THEN <<targetProject>> \o rest.targetProjects
                                        ELSE <<>>]

RECURSIVE resolveSkipFrom(_, _, _)
resolveSkipFrom(refs, projects, i) ==
    IF i > Len(refs) THEN <<>>
    ELSE LET targetProject == find(projects, refs[i])
         IN (IF targetProject = Undefined THEN <<>> ELSE <<targetProject>>)
            \o resolveSkipFrom(refs, projects, i + 1)

\* a resolution that goes on after a reference that is not configured and
\* refreshes the projects that are
resolveWorkspaceSkip(refs, projects) ==
    [err |-> NoValue, targetProjects |-> resolveSkipFrom(refs, projects, 1)]

RECURSIVE Reverse(_)
Reverse(q) == IF q = <<>> THEN <<>> ELSE Reverse(Tail(q)) \o <<Head(q)>>

\* a resolution that hands the projects over in reverse order
resolveWorkspaceReversed(refs, projects) ==
    [err |-> resolveFrom(refs, projects, 1).err,
     targetProjects |-> Reverse(resolveFrom(refs, projects, 1).targetProjects)]

\* refreshTargetWorkspace: the _.forEach over workspace.projects; err is the
\* first reference that is not configured (callback(err) ends the process
\* in processError, so the loop goes no further), NoValue when all resolve
resolveWorkspace(refs, projects) == resolveFrom(refs, projects, 1)

\* an iteration that goes on to the next project after an error
afterProjectIgnoresErr(err, i, n) ==
    IF i < n THEN "next" ELSE "complete"

\* async.eachSeries / the callbacks of processRequest: what follows the
\* completion of the pipeline of the project at position i of n
afterProject(err, i, n) ==
    IF err THEN "error"
    ELSE IF i < n THEN "next"
    ELSE "complete"

\* the flags displayHeader looks for in process.argv
HelpFlags == {"-h", "--help", "-V", "--version"}

\* a condition that holds when none of the flags is in argv
headerConditionNoFlag(argv) ==
    ~("-h" \in argv \/ "--help" \in argv \/ "-V" \in argv \/ "--version" \in argv)

\* displayHeader: the condition under which the header is displayed
headerCondition(argv) ==
    \/ ~("-h" \in argv)
    \/ ~("--help" \in argv)
    \/ ~("-V" \in argv)
    \/ ~("--version" \in argv)

\* Math.round of a value >= 0 given in thousandths (halves round up)
MathRound(thousandths) == (thousandths + 500) \div 1000

\* displayProcessTime: the minutes and seconds printed for endTime -
\* startTime = ms; timeDiff is held in thousandths of a second until
\* Math.floor makes it a whole number of minutes
displayProcessTime(ms) ==
    LET timeDiff == ms
        seconds == MathRound(timeDiff % 60000)
        floored == timeDiff \div 60000
        minutes == MathRound((floored % 60) * 1000)
    IN [minutes |-> minutes, seconds |-> seconds]

\* refreshTargetProject: if (program.build)
buildRequested(prog) == prog.build

(*********************** the run *******************************************)

\* the command lines of the model: the options commander parsed and the
\* length of process.argv
Programs ==
    [ project : ProjectNames \cup {NoValue},
      workspace : {"W", NoValue},
      config : {NoValue, "cfg.json"},
      build : BOOLEAN ]

ArgvLen(prog, extra) ==
    2 + (IF Truthy(prog.project) THEN 2 ELSE 0)
      + (IF Truthy(prog.workspace) THEN 2 ELSE 0)
      + (IF Truthy(prog.config) THEN 2 ELSE 0)
      + (IF prog.build THEN 1 ELSE 0)
      + extra

Init ==
    /\ pc = "setupProgramInfo"
    /\ program \in Programs
    /\ \E extra \in 0..1 :
        /\ extra = 1 => ~Truthy(program.project) /\ ~Truthy(program.workspace)
        /\ argvLen = ArgvLen(program, extra)
    /\ file = Null
    /\ config = Null
    /\ arrays = [r \in Refs |-> <<>>]
    /\ accessed = FALSE
    /\ accessErr = FALSE
    /\ readStarted = FALSE
    /\ resolved = <<>>
    /\ mode = "none"
    /\ targetProjects = <<>>
    /\ idx = 0
    /\ bc = Undefined
    /\ nc = Undefined
    /\ inflight = NoCommand
    /\ log = <<>>
    /\ failure = NoCommand
    /\ reported = NoError
    /\ startTime = FALSE
    /\ endTime = FALSE
    /\ summaries = 0
    /\ completions = 0
    /\ helpFlags = {}
    /\ header = "none"
    /\ elapsed = 0
    /\ summary = NoSummary

\* processError: print 'Error: ' + err.message and process.exit()
processError(err) ==
    /\ reported' = err
    /\ pc' = "exited"

\* an exception thrown in a callback that nothing catches
uncaughtException ==
    /\ pc' = "crashed"
    /\ UNCHANGED reported

\* setupProgramInfo
setupProgramInfo ==
    /\ pc = "setupProgramInfo"
    /\ UNCHANGED <<completions, helpFlags, header, elapsed, summary>>
    /\ pc' = "displayHeader"
    /\ UNCHANGED <<program, argvLen, file, config, arrays, accessed, accessErr,
                   readStarted, resolved, mode, targetProjects, idx, bc, nc,
                   inflight, log, failure, reported, startTime, endTime, summaries>>

\* displayHeader
displayHeader ==
    /\ pc = "displayHeader"
    /\ header' = IF headerCondition(helpFlags) THEN "displayed" ELSE "skipped"
    /\ pc' = "validateProgram"
    /\ UNCHANGED <<completions, helpFlags, elapsed, summary>>
    /\ UNCHANGED <<program, argvLen, file, config, arrays, accessed, accessErr,
                   readStarted, resolved, mode, targetProjects, idx, bc, nc,
                   inflight, log, failure, reported, startTime, endTime, summaries>>

\* validateProgram, up to the call of fs.access
validateProgram ==
    /\ pc = "validateProgram"
    /\ UNCHANGED <<completions, helpFlags, header, elapsed, summary>>
    /\ LET errMsg == validateArgs(argvLen, program)
       IN IF errMsg # NoValue
          THEN /\ processError([kind |-> "UsageError", name |-> errMsg, pos |-> 0])
               /\ UNCHANGED accessed
          ELSE /\ accessed' = TRUE
               /\ pc' = "fsAccess"
               /\ UNCHANGED reported
    /\ UNCHANGED <<program, argvLen, file, config, arrays, accessErr,
                   readStarted, resolved, mode, targetProjects, idx, bc, nc,
                   inflight, log, failure, startTime, endTime, summaries>>

\* validateProgram: the callback of fs.access(configPath, fs.R_OK, ...)
fsAccessCallback ==
    /\ pc = "fsAccess"
    /\ UNCHANGED <<completions, helpFlags, header, elapsed, summary>>
    /\ \E err \in BOOLEAN :
        /\ accessErr' = err
        /\ IF accessCallback(err) = "error"
           THEN processError([kind |-> "ConfigNotFound", name |-> program.config, pos |-> 0])
           ELSE /\ pc' = "setupConfigOptions"
                /\ UNCHANGED reported
    /\ UNCHANGED <<program, argvLen, file, config, arrays, accessed,
                   readStarted, resolved, mode, targetProjects, idx, bc, nc,
                   inflight, log, failure, startTime, endTime, summaries>>

\* setupConfigOptions, up to the call of opts.read
setupConfigOptions ==
    /\ pc = "setupConfigOptions"
    /\ UNCHANGED <<completions, helpFlags, header, elapsed, summary>>
    /\ config' = defaultOptions
    /\ readStarted' = TRUE
    /\ pc' = "optsRead"
    /\ UNCHANGED <<program, argvLen, file, arrays, accessed, accessErr,
                   resolved, mode, targetProjects, idx, bc, nc,
                   inflight, log, failure, reported, startTime, endTime, summaries>>

\* opts.read merged the file: config.buildConfig holds references to the
\* buildArgs arrays of the templates
loadBuildConfig(fileBuildConfig) ==
    IF fileBuildConfig = Null THEN Null
    ELSE [t \in DOMAIN fileBuildConfig |->
            [buildFile |-> fileBuildConfig[t].buildFile, buildArgs |-> TemplateRef(t)]]

loadArrays(fileBuildConfig) ==
    [r \in Refs |->
        IF fileBuildConfig # Null
           /\ \E t \in DOMAIN fileBuildConfig : r = TemplateRef(t)
        THEN fileBuildConfig[r[2]].buildArgs
        ELSE <<>>]

\* setupConfigOptions: the callback of opts.read(configPath, ...)
optsReadCallback ==
    /\ pc = "optsRead"
    /\ UNCHANGED <<completions, helpFlags, header, elapsed, summary>>
    /\ \/ /\ processError([kind |-> "ReadError", name |-> configPathOf(program), pos |-> 0])
          /\ UNCHANGED <<file, config, arrays>>
       \/ \E f \in ConfigFiles :
            LET cfg == [reposRoot |-> Null,
                        buildConfig |-> loadBuildConfig(f.buildConfig),
                        projects |-> f.projects,
                        workspaces |-> f.workspaces]
            IN /\ file' = f
               /\ config' = cfg
               /\ arrays' = loadArrays(f.buildConfig)
               /\ IF buildConfigMissing(program, cfg)
                  THEN processError([kind |-> "ConfigIncompleteError", name |-> "buildConfig", pos |-> 0])
                  ELSE /\ pc' = "processRequest"
                       /\ UNCHANGED reported
    /\ UNCHANGED <<program, argvLen, accessed, accessErr,
                   readStarted, resolved, mode, targetProjects, idx, bc, nc,
                   inflight, log, failure, startTime, endTime, summaries>>

\* refreshTargetProject, up to the call of svn.commands.update
updateCommand(project, i) ==
    [kind |-> "update", pos |-> i, name |-> project.name,
     file |-> "svn", args |-> <<project.path>>, cwd |-> ""]

\* processRequest, with validateTargetProject / validateTargetWorkspace and
\* the start of refreshTargetProject / refreshTargetWorkspace, all of which
\* run synchronously up to the first external command.  validateProgram
\* lets no run with both options through, so at most one branch is taken;
\* with neither option no branch is taken and the callback is never called
processRequest ==
    /\ pc = "processRequest"
    /\ UNCHANGED <<completions, helpFlags, header, elapsed, summary>>
    /\ IF Truthy(program.project)
       THEN LET targetProject == find(config.projects, program.project)
            IN /\ resolved' = <<targetProject>>
               /\ mode' = "project"
               /\ IF targetProject = Undefined
                  THEN /\ processError([kind |-> "ProjectNotConfigured", name |-> program.project, pos |-> 0])
                       /\ UNCHANGED <<targetProjects, idx, inflight, log, startTime, endTime, summaries>>
                  ELSE /\ startTime' = TRUE
                       /\ targetProjects' = <<targetProject>>
                       /\ idx' = 1
                       /\ inflight' = updateCommand(targetProject, 1)
                       /\ log' = Append(log, updateCommand(targetProject, 1))
                       /\ pc' = "update"
                       /\ UNCHANGED <<reported, endTime, summaries>>
       ELSE IF Truthy(program.workspace)
       THEN LET targetWorkspace == find(config.workspaces, program.workspace)
            IN /\ resolved' = <<targetWorkspace>>
               /\ mode' = "workspace"
               /\ IF targetWorkspace = Undefined
                  THEN /\ processError([kind |-> "WorkspaceNotConfigured", name |-> program.workspace, pos |-> 0])
                       /\ UNCHANGED <<targetProjects, idx, inflight, log, startTime, endTime, summaries>>
                  ELSE LET r == resolveWorkspace(targetWorkspace.projects, config.projects)
                       IN /\ startTime' = TRUE
                          /\ IF r.err # NoValue
                             THEN /\ processError([kind |-> "WorkspaceProjectNotConfigured", name |-> r.err, pos |-> 0])
                                  /\ UNCHANGED <<targetProjects, idx, inflight, log, endTime, summaries>>
                             ELSE IF r.targetProjects = <<>>
                             THEN /\ targetProjects' = <<>>
                                  /\ endTime' = TRUE
                                  /\ summaries' = summaries + 1
                                  /\ pc' = "done"
                                  /\ UNCHANGED <<idx, inflight, log, reported>>
                             ELSE /\ targetProjects' = r.targetProjects
                                  /\ idx' = 1
                                  /\ inflight' = updateCommand(r.targetProjects[1], 1)
                                  /\ log' = Append(log, updateCommand(r.targetProjects[1], 1))
                                  /\ pc' = "update"
                                  /\ UNCHANGED <<reported, endTime, summaries>>
       ELSE /\ pc' = "idle"
            /\ UNCHANGED <<resolved, mode, targetProjects, idx, inflight, log,
                           reported, startTime, endTime, summaries>>
    /\ UNCHANGED <<program, argvLen, file, config, arrays, accessed, accessErr,
                   readStarted, bc, nc, failure>>

\* the callback given to refreshTargetProject is called with err (isErr) or
\* without: async.eachSeries moves to the next project, or its final
\* callback and the callback of processRequest report the time or the error
projectCallback(isErr, err) ==
    LET step == afterProject(isErr, idx, Len(targetProjects))
    IN IF step = "error"
       THEN /\ processError(err)
            /\ inflight' = NoCommand
            /\ UNCHANGED <<idx, log, endTime, summaries>>
       ELSE IF step = "next"
       THEN /\ idx' = idx + 1
            /\ inflight' = updateCommand(targetProjects[idx + 1], idx + 1)
            /\ log' = Append(log, updateCommand(targetProjects[idx + 1], idx + 1))
            /\ pc' = "update"
            /\ UNCHANGED <<reported, endTime, summaries>>
       ELSE /\ endTime' = TRUE
            /\ summaries' = summaries + 1
            /\ inflight' = NoCommand
            /\ pc' = "done"
            /\ UNCHANGED <<idx, log, reported>>

commandError(kind) == [kind |-> kind, name |-> targetProjects[idx].name, pos |-> idx]

\* an external command is started with execFile(file, args, options, ...)
execFile(kind, buildFile, args) ==
    LET cmd == [kind |-> kind, pos |-> idx, name |-> targetProjects[idx].name,
                file |-> buildFile, args |-> args, cwd |-> targetProjects[idx].buildPath]
    IN /\ inflight' = cmd
       /\ log' = Append(log, cmd)
       /\ pc' = kind
       /\ UNCHANGED <<idx, reported, endTime, summaries>>

\* refreshTargetProject: the callback of svn.commands.update
updateCallback ==
    /\ pc = "update"
    /\ completions' = completions + 1
    /\ UNCHANGED reportVars
    /\ \E err \in BOOLEAN :
        IF err
        THEN /\ failure' = inflight
             /\ projectCallback(TRUE, commandError("UpdateFailed"))
             /\ UNCHANGED <<arrays, bc, nc>>
        ELSE IF ~buildRequested(program)
        THEN /\ projectCallback(FALSE, NoError)
             /\ UNCHANGED <<arrays, bc, nc, failure>>
        ELSE LET project == targetProjects[idx]
                 bcTemplate == lookupTool(config.buildConfig, project.buildTool)
                 bcv == clone(bcTemplate, TRUE, <<"local", "bc">>)
                 h1 == cloneHeap(arrays, bcTemplate, <<"local", "bc">>)
             IN /\ UNCHANGED failure
                /\ IF project.buildTool = "msbuild"
                   THEN LET ncTemplate == lookupTool(config.buildConfig, "nuget")
                            ncv == clone(ncTemplate, TRUE, <<"local", "nc">>)
                            h2 == cloneHeap(h1, ncTemplate, <<"local", "nc">>)
                        IN /\ bc' = bcv
                           /\ nc' = ncv
                           /\ IF ncv = Undefined
                              THEN \* nc.buildArgs of undefined: TypeError
                                   /\ arrays' = h2
                                   /\ uncaughtException
                                   /\ inflight' = NoCommand
                                   /\ UNCHANGED <<idx, log, endTime, summaries>>
                              ELSE LET h3 == [h2 EXCEPT ![ncv.buildArgs] =
                                                splice(h2[ncv.buildArgs], 1, 0, project.slnFile)]
                                   IN /\ arrays' = h3
                                      /\ execFile("restore", ncv.buildFile, h3[ncv.buildArgs])
                   ELSE /\ bc' = bcv
                        /\ arrays' = h1
                        /\ UNCHANGED nc
                        /\ IF bcv = Undefined
                           THEN \* bc.buildFile of undefined: TypeError
                                /\ uncaughtException
                                /\ inflight' = NoCommand
                                /\ UNCHANGED <<idx, log, endTime, summaries>>
                           ELSE execFile("build", bcv.buildFile, h1[bcv.buildArgs])
    /\ UNCHANGED <<program, argvLen, file, config, accessed, accessErr, readStarted,
                   resolved, mode, targetProjects, startTime>>

\* refreshTargetProject: the callback of execFile(nc.buildFile, ...)
restoreCallback ==
    /\ pc = "restore"
    /\ completions' = completions + 1
    /\ UNCHANGED reportVars
    /\ \E err \in BOOLEAN :
        IF err
        THEN /\ failure' = inflight
             /\ projectCallback(TRUE, commandError("RestoreFailed"))
             /\ UNCHANGED arrays
        ELSE /\ UNCHANGED failure
             /\ IF bc = Undefined
                THEN \* bc.buildArgs of undefined: TypeError
                     /\ uncaughtException
                     /\ inflight' = NoCommand
                     /\ UNCHANGED <<arrays, idx, log, endTime, summaries>>
                ELSE LET h == [arrays EXCEPT ![bc.buildArgs] =
                                 push(arrays[bc.buildArgs], targetProjects[idx].slnFile)]
                     IN /\ arrays' = h
                        /\ execFile("build", bc.buildFile, h[bc.buildArgs])
    /\ UNCHANGED <<program, argvLen, file, config, accessed, accessErr, readStarted,
                   resolved, mode, targetProjects, bc, nc, startTime>>

\* refreshTargetProject: the callback of execFile(bc.buildFile, ...)
buildCallback ==
    /\ pc = "build"
    /\ completions' = completions + 1
    /\ UNCHANGED reportVars
    /\ \E err \in BOOLEAN :
        IF err
        THEN /\ failure' = inflight
             /\ projectCallback(TRUE, commandError("BuildFailed"))
        ELSE /\ UNCHANGED failure
             /\ projectCallback(FALSE, NoError)
    /\ UNCHANGED <<program, argvLen, file, config, arrays, accessed, accessErr,
                   readStarted, resolved, mode, targetProjects, bc, nc, startTime>>

Next ==
    \/ setupProgramInfo
    \/ displayHeader
    \/ validateProgram
    \/ fsAccessCallback
    \/ setupConfigOptions
    \/ optsReadCallback
    \/ processRequest
    \/ updateCallback
    \/ restoreCallback
    \/ buildCallback

Spec == Init /\ [][Next]_vars

(*********************** the report ****************************************)

\* measured durations in milliseconds: around the minute and the hour, with
\* fractions of a second on both sides of one half
Durations ==
    { ((h * 60 + m) * 60 + sec) * 1000 + f :
        h \in 0..MaxHours, m \in {0, 2, 59}, sec \in {0, 5, 59}, f \in {0, 499, 500, 999} }

\* displayHeader and displayProcessTime applied to every argv and duration
ReportInit ==
    /\ pc = "displayHeader"
    /\ program = [project |-> "A", workspace |-> NoValue, config |-> NoValue, build |-> FALSE]
    /\ helpFlags \in SUBSET HelpFlags
    /\ argvLen = ArgvLen(program, Cardinality(helpFlags))
    /\ file = Null
    /\ config = Null
    /\ arrays = [r \in Refs |-> <<>>]
    /\ accessed = FALSE
    /\ accessErr = FALSE
    /\ readStarted = FALSE
    /\ resolved = <<>>
    /\ mode = "none"
    /\ targetProjects = <<>>
    /\ idx = 0
    /\ bc = Undefined
    /\ nc = Undefined
    /\ inflight = NoCommand
    /\ log = <<>>
    /\ failure = NoCommand
    /\ reported = NoError
    /\ startTime = TRUE
    /\ endTime = TRUE
    /\ summaries = 0
    /\ completions = 0
    /\ header = "none"
    /\ elapsed \in Durations
    /\ summary = NoSummary

\* displayHeader, followed here by the report of the time
reportHeader ==
    /\ pc = "displayHeader"
    /\ header' = IF headerCondition(helpFlags) THEN "displayed" ELSE "skipped"
    /\ pc' = "displayProcessTime"
    /\ UNCHANGED <<program, argvLen, file, config, arrays, accessed, accessErr,
                   readStarted, resolved, mode, targetProjects, idx, bc, nc,
                   inflight, log, failure, reported, startTime, endTime, summaries,
                   completions, helpFlags, elapsed, summary>>

\* displayProcessTime
reportTime ==
    /\ pc = "displayProcessTime"
    /\ summary' = displayProcessTime(elapsed)
    /\ summaries' = summaries + 1
    /\ pc' = "done"
    /\ UNCHANGED <<program, argvLen, file, config, arrays, accessed, accessErr,
                   readStarted, resolved, mode, targetProjects, idx, bc, nc,
                   inflight, log, failure, reported, startTime, endTime,
                   completions, helpFlags, header, elapsed>>

ReportNext ==
    \/ reportHeader
    \/ reportTime

ReportSpec == ReportInit /\ [][ReportNext]_vars

(*********************** properties ****************************************)

\* the error a failing command is reported as
failedKind(cmd) ==
    IF cmd.kind = "update" THEN "UpdateFailed"
    ELSE IF cmd.kind = "restore" THEN "RestoreFailed"
    ELSE "BuildFailed"

\* the run is over: processError exited, the waterfall completed, an
\* exception was not caught, or no callback is pending
Ended == pc \in {"exited", "done", "crashed", "idle"}

Validated == pc \notin {"setupProgramInfo", "displayHeader", "validateProgram"}

\* C1: in a workspace run, once a command (update, restore or build) of the
\* project at position i has failed, it is the last command ever started,
\* no command of a later position was started, and the run has ended with
\* the single reported error being that of project i's failing step.
C1_SequentialAbort ==
    (mode = "workspace" /\ failure # NoCommand) =>
        /\ log # <<>>
        /\ log[Len(log)] = failure
        /\ \A k \in 1..Len(log) : log[k].pos <= failure.pos
        /\ inflight = NoCommand
        /\ pc = "exited"
        /\ reported = [kind |-> failedKind(failure), name |-> failure.name, pos |-> failure.pos]
        /\ targetProjects[failure.pos].name = failure.name

\* C1 witness: the project in the middle of a workspace of three failed
C1_Witness ==
    /\ mode = "workspace"
    /\ Len(targetProjects) = 3
    /\ failure # NoCommand
    /\ failure.pos = 2
    /\ pc = "exited"

\* the references of a workspace that name no entry of config.projects
Unresolved(refs) ==
    {k \in 1..Len(refs) : \A j \in 1..Len(config.projects) : config.projects[j].name # refs[k]}

\* C2: a workspace run whose workspace holds a reference to a project that
\* is not configured, at any position, ends with the 'not configured' error
\* naming an unresolved reference and starts no command at all.
C2_WorkspaceFailFast ==
    (mode = "workspace" /\ resolved # <<>> /\ resolved[1] # Undefined
       /\ Unresolved(resolved[1].projects) # {}) =>
        /\ log = <<>>
        /\ inflight = NoCommand
        /\ pc = "exited"
        /\ reported.kind = "WorkspaceProjectNotConfigured"
        /\ \E k \in Unresolved(resolved[1].projects) : reported.name = resolved[1].projects[k]
        /\ summaries = 0

\* C2 witness: the first reference resolves and a later one does not
C2_Witness ==
    /\ mode = "workspace"
    /\ resolved # <<>>
    /\ resolved[1] # Undefined
    /\ Unresolved(resolved[1].projects) # {}
    /\ 1 \notin Unresolved(resolved[1].projects)
    /\ pc = "exited"

\* the build commands of 'msbuild' projects in the log
MsbuildBuilds ==
    {k \in 1..Len(log) : log[k].kind = "build"
                         /\ targetProjects[log[k].pos].buildTool = "msbuild"}

\* the restore commands in the log
Restores == {k \in 1..Len(log) : log[k].kind = "restore"}

\* two-phase order: a build of an 'msbuild' project directly follows the
\* restore of the same project, which did not fail; a restore is started
\* only for an 'msbuild' project, with --build, after its update
TwoPhaseOrder ==
    /\ \A k \in MsbuildBuilds :
        /\ k > 1
        /\ log[k - 1].kind = "restore"
        /\ log[k - 1].pos = log[k].pos
        /\ failure # log[k - 1]
    /\ \A k \in Restores :
        /\ program.build
        /\ targetProjects[log[k].pos].buildTool = "msbuild"
        /\ k > 1
        /\ log[k - 1].kind = "update"
        /\ log[k - 1].pos = log[k].pos
    /\ (failure.kind = "restore" => log[Len(log)] = failure)

\* the build arguments are the template's arguments with slnFile last
BuildArgsAppended ==
    \A k \in MsbuildBuilds :
        LET t == file.buildConfig["msbuild"].buildArgs
            a == log[k].args
        IN /\ Len(a) = Len(t) + 1
           /\ SubSeq(a, 1, Len(t)) = t
           /\ a[Len(a)] = targetProjects[log[k].pos].slnFile
           /\ log[k].file = file.buildConfig["msbuild"].buildFile

SlnFiles == {p.slnFile : p \in ProjectPool}

\* C4: the buildArgs of every configured template, the restore tool
\* included, equal the value loaded from the configuration in every state
\* of the run, and every restore and build command holds exactly one
\* slnFile on the 'msbuild' path, that of its own project, and none on the
\* generic path.
C4_TemplatesNotMutated ==
    /\ (file # Null /\ file.buildConfig # Null) =>
        \A t \in DOMAIN file.buildConfig :
            /\ t \in DOMAIN config.buildConfig
            /\ arrays[config.buildConfig[t].buildArgs] = file.buildConfig[t].buildArgs
    /\ \A k \in 1..Len(log) :
        log[k].kind \in {"restore", "build"} =>
            LET own == targetProjects[log[k].pos]
                slns == {j \in 1..Len(log[k].args) : log[k].args[j] \in SlnFiles}
            IN /\ \A j \in slns : log[k].args[j] = own.slnFile
               /\ Cardinality(slns) = IF own.buildTool = "msbuild" THEN 1 ELSE 0

\* C4 witness: the second of two 'msbuild' projects with different slnFile
\* is being built
C4_Witness ==
    /\ pc = "build"
    /\ idx = 2
    /\ targetProjects[1].buildTool = "msbuild"
    /\ targetProjects[2].buildTool = "msbuild"
    /\ targetProjects[1].slnFile # targetProjects[2].slnFile
    /\ \E k \in 1..Len(log) : log[k].kind = "build" /\ log[k].pos = 1

ExactlyOneTarget == Truthy(program.project) # Truthy(program.workspace)

\* C5 as claimed: a run given both or neither of --project and --workspace
\* does not pass validation and ends in a usage error; no run ends without
\* an error or an elapsed-time summary.
C5_ExactlyOneTargetRequired ==
    /\ (~ExactlyOneTarget /\ Validated) =>
            (pc = "exited" /\ reported.kind = "UsageError")
    /\ pc # "idle"

\* C6: with --project and --workspace both set, the configuration path is
\* never accessed, the configuration never read, no target resolved and no
\* command started, and validation ends the run with the usage error.
C6_ConflictBeforeAccess ==
    (Truthy(program.project) /\ Truthy(program.workspace)) =>
        /\ ~accessed
        /\ ~readStarted
        /\ config = Null
        /\ file = Null
        /\ resolved = <<>>
        /\ log = <<>>
        /\ inflight = NoCommand
        /\ Validated =>
            /\ pc = "exited"
            /\ reported = [kind |-> "UsageError",
                           name |-> "Options --project and --workspace cannot be used together.",
                           pos |-> 0]

\* C6 witness: a run with both options has been validated
C6_Witness ==
    /\ Truthy(program.project)
    /\ Truthy(program.workspace)
    /\ Validated

\* C7 as claimed: no run ends by an uncaught exception.
C7_EveryFailureReported == pc # "crashed"

\* C8: with --build and a configuration without buildConfig the run ends
\* with the configuration-incomplete error, no target resolved and no
\* command started; without --build the same configuration is no error and
\* the run goes on to the request.
C8_BuildConfigRequired ==
    (file # Null /\ file.buildConfig = Null) =>
        IF program.build
        THEN /\ pc = "exited"
             /\ reported.kind = "ConfigIncompleteError"
             /\ resolved = <<>>
             /\ log = <<>>
             /\ inflight = NoCommand
        ELSE /\ reported.kind # "ConfigIncompleteError"
             /\ pc \notin {"optsRead", "crashed"}
             /\ (pc = "exited" => resolved # <<>>)

\* C8 witness: --build with a configuration that has no buildConfig
C8_Witness ==
    /\ file # Null
    /\ file.buildConfig = Null
    /\ program.build
    /\ pc = "exited"

\* C9: when fs.access reports the configuration path unreadable, the run
\* ends with the config-not-found error; the configuration is never read,
\* no target resolved and no command started.
C9_ConfigNotFound ==
    accessErr =>
        /\ pc = "exited"
        /\ reported.kind = "ConfigNotFound"
        /\ ~readStarted
        /\ config = Null
        /\ file = Null
        /\ resolved = <<>>
        /\ log = <<>>
        /\ inflight = NoCommand

\* C9 witness: the path was not readable, given by --config or by default
C9_Witness ==
    /\ accessErr
    /\ Truthy(program.config)
    /\ pc = "exited"

\* the list a request is resolved in, and the requested name
RequestList == IF mode = "project" THEN config.projects ELSE config.workspaces
RequestName == IF mode = "project" THEN program.project ELSE program.workspace
Matches == {i \in 1..Len(RequestList) : RequestList[i].name = RequestName}

\* C10: the resolver returns the entry of the requested name that comes
\* first in the list, and the run ends with the 'not configured' error
\* naming the request if and only if no entry has that name.
C10_Resolver ==
    resolved # <<>> =>
        /\ Matches = {} =>
            /\ resolved[1] = Undefined
            /\ pc = "exited"
            /\ reported = [kind |-> IF mode = "project" THEN "ProjectNotConfigured"
                                    ELSE "WorkspaceNotConfigured",
                           name |-> RequestName, pos |-> 0]
        /\ Matches # {} =>
            /\ \E i \in Matches :
                /\ \A j \in Matches : i <= j
                /\ resolved[1] = RequestList[i]
            /\ reported.kind \notin {"ProjectNotConfigured", "WorkspaceNotConfigured"}

\* C10 witness: two different entries have the requested name
C10_Witness ==
    /\ resolved # <<>>
    /\ \E i, j \in Matches : RequestList[i] # RequestList[j]

\* C11 as claimed: the minutes printed are the whole minutes of the elapsed
\* time and minutes * 60 + seconds is the elapsed time rounded to the
\* nearest second, for durations of one hour or more as well.
C11_ElapsedConversion ==
    summary # NoSummary =>
        /\ summary.minutes = elapsed \div 60000
        /\ summary.minutes * 60 + summary.seconds = (elapsed + 500) \div 1000
        /\ (elapsed = 125000 => summary = [minutes |-> 2, seconds |-> 5])

C16_SecondsBelowSixty ==
    summary # NoSummary =>
        /\ summary.seconds \in 0..59
        /\ summary.minutes \in Nat

\* the commands started and not yet completed
InFlight == Len(log) - completions

\* the last step of the pipeline of a project
LastStep == IF program.build THEN "build" ELSE "update"

\* C12: at most one external command is in flight in every state, so each
\* command is started only after the one before it has completed; in a
\* workspace run the projects are processed in the order of
\* workspace.projects, the update of the project at position i + 1 being
\* started directly after the last step of the project at position i has
\* completed without error.
C12_SingleFlow ==
    /\ InFlight \in {0, 1}
    /\ (InFlight = 1) <=> (pc \in {"update", "restore", "build"})
    /\ (InFlight = 1) <=> (inflight # NoCommand)
    /\ inflight # NoCommand => inflight = log[Len(log)]
    /\ \A k \in 1..Len(log) :
        /\ log[k].pos \in 1..idx
        /\ log[k].name = targetProjects[log[k].pos].name
        /\ mode = "workspace" => log[k].name = resolved[1].projects[log[k].pos]
        /\ log[k].kind = "update" =>
            IF k = 1 THEN log[k].pos = 1
            ELSE /\ log[k].pos = log[k - 1].pos + 1
                 /\ log[k - 1].kind = LastStep
                 /\ failure # log[k - 1]
        /\ log[k].kind # "update" => (k > 1 /\ log[k].pos = log[k - 1].pos)
    /\ mode = "workspace" /\ log # <<>> =>
        /\ Len(targetProjects) = Len(resolved[1].projects)
        /\ \A i \in 1..Len(targetProjects) :
            targetProjects[i].name = resolved[1].projects[i]

\* C12 witness: the update of the third project of a workspace is in
\* flight after the builds of the first two
C12_Witness ==
    /\ mode = "workspace"
    /\ program.build
    /\ idx = 3
    /\ pc = "update"
    /\ completions = Len(log) - 1
    /\ targetProjects[1].name # targetProjects[2].name

\* the commands of a kind started for the project at position p
CommandsAt(kind, p) == {k \in 1..Len(log) : log[k].kind = kind /\ log[k].pos = p}

\* the update of the project at position p has completed without error
UpdateSucceeded(p) ==
    /\ CommandsAt("update", p) # {}
    /\ \A k \in CommandsAt("update", p) : failure # log[k] /\ inflight # log[k]

\* C13 as claimed: a restore or build command is started only with --build
\* and after the update of its project has completed without error; on the
\* generic path exactly one build command is run, with the arguments of the
\* template, and no restore command.
C13_ProjectPipeline ==
    /\ \A k \in 1..Len(log) :
        log[k].kind \in {"restore", "build"} =>
            /\ program.build
            /\ UpdateSucceeded(log[k].pos)
    /\ \A p \in 1..idx :
        /\ Cardinality(CommandsAt("update", p)) = 1
        /\ (~program.build \/ ~UpdateSucceeded(p)) =>
            CommandsAt("restore", p) \cup CommandsAt("build", p) = {}
        /\ (program.build /\ UpdateSucceeded(p)
              /\ targetProjects[p].buildTool # "msbuild") =>
            /\ CommandsAt("restore", p) = {}
            /\ Cardinality(CommandsAt("build", p)) = 1
            /\ \A k \in CommandsAt("build", p) :
                /\ log[k].args = file.buildConfig[targetProjects[p].buildTool].buildArgs
                /\ log[k].file = file.buildConfig[targetProjects[p].buildTool].buildFile

\* C14: the elapsed-time summary is printed at most once, only in a run
\* whose target was resolved and in which every project's pipeline has
\* completed without error, the start timestamp being taken before the
\* first update and the end timestamp after the last project; a run that
\* reports an error prints no summary.
C14_TimingReport ==
    /\ summaries \in {0, 1}
    /\ summaries = 1 =>
        /\ pc = "done"
        /\ reported = NoError
        /\ failure = NoCommand
        /\ resolved # <<>>
        /\ resolved[1] # Undefined
        /\ startTime
        /\ endTime
        /\ inflight = NoCommand
        /\ completions = Len(log)
        /\ idx = Len(targetProjects)
        /\ mode = "workspace" => Len(targetProjects) = Len(resolved[1].projects)
        /\ \A p \in 1..Len(targetProjects) :
            /\ UpdateSucceeded(p)
            /\ program.build => \E k \in CommandsAt("build", p) : inflight # log[k]
    /\ reported # NoError => (summaries = 0 /\ ~endTime)
    /\ log # <<>> => startTime
    /\ endTime => summaries = 1
    /\ pc = "done" => summaries = 1

\* C14 witness: the summary of a workspace of three projects, built
C14_Witness ==
    /\ summaries = 1
    /\ mode = "workspace"
    /\ Len(targetProjects) = 3
    /\ program.build
====
